---- MODULE Spec2Model ----
(***************************************************************************)
(* Model of ReplayHandler (ps_ingestion_lambda/modules/replay_handler.py): *)
(* extract_replays and its helpers _get_most_recent_replay_id,             *)
(* _get_replay_info and _get_replay_json_from_id.                          *)
(*                                                                         *)
(* Strings are sequences of one-character strings, so that slicing and the *)
(* substring test are computed and not assumed.  The collaborators         *)
(* (ladder retriever, HTML fetch, JSON fetch) are the environment: each    *)
(* call's outcome is chosen nondeterministically from the outcomes the     *)
(* call can have.                                                          *)
(***************************************************************************)
EXTENDS Integers, Sequences, FiniteSets, TLC

\* ---------------------------------------------------------------- bounds
\* longest ladder the ranking source returns
MaxLadder == 4
\* most link elements on a search page (lookup specification)
MaxLinks == 2
\* longest target reference of a link (lookup specification)
MaxHref == 3

\* ------------------------------------------------------ program constants
\* utils.constants.MAX_USERS, the ceiling of the clamp.  The handler imports
\* it (line 8); its value is set outside this file, and nothing below
\* depends on which positive value it has.
MAX_USERS == 3

\* self.format_id, set by the constructor
format_id == <<"g", "8">>

\* characters target references are made of
Chars == {"/", "g", "8"}

\* ---------------------------------------------------------------- strings
\* s[1:] of Python: the string without its first character ("" stays "")
Slice1(s) == IF Len(s) = 0 THEN <<>> ELSE SubSeq(s, 2, Len(s))

\* `sub in s` of Python on strings: substring test
StrContains(sub, s) ==
    \E i \in 1..(Len(s) + 1) :
        /\ i + Len(sub) - 1 <= Len(s)
        /\ SubSeq(s, i, i + Len(sub) - 1) = sub

\* all strings over Chars of length at most n
StrUpTo(n) == UNION {[1..k -> Chars] : k \in 0..n}

\* ------------------------------------------------------------ search page
\* A link element <a ...>: hasHref says whether the element carries a
\* target reference; Tag.get("href") is None when it does not.
NoHrefLink == [hasHref |-> FALSE, href |-> <<>>]

HrefLink(h) == [hasHref |-> TRUE, href |-> h]

\* The predicate handed to find_all, applied to one link element:
\*   predicate.name == "a" and self.format_id in predicate.get("href")
\* `in None` raises TypeError.
PredicateRaises(link) == ~link.hasHref

PredicateHolds(link) == link.hasHref /\ StrContains(format_id, link.href)

\* find_all visits every element of the page; the first element for which
\* the predicate raises ends the traversal with that exception.
FindAllRaises(page) == \E i \in 1..Len(page) : PredicateRaises(page[i])

\* the elements find_all returns, in page order
FindAll(page) == SelectSeq(page, PredicateHolds)

\* the list comprehension: replay.get("href")[1:] for every element found
ReplayIdList(page) == [i \in 1..Len(FindAll(page)) |-> Slice1(FindAll(page)[i].href)]

\* Outcome of get_soup_from_url: the fetch raised, or a page was parsed.
SoupRaised == [raised |-> TRUE, page |-> <<>>]

SoupOk(page) == [raised |-> FALSE, page |-> page]

\* What a helper hands to its caller: a value, or an exception that leaves
\* it (exc is "" when it returns normally).
Returns(v) == [exc |-> "", value |-> v]

Raises(e) == [exc |-> e, value |-> <<>>]

\* (mutant) the same without the try/except: a failed fetch and a failed
\* traversal leave the function as exceptions
_get_most_recent_replay_id_no_except(soup) ==
    IF soup.raised THEN Raises("RequestException")
    ELSE IF FindAllRaises(soup.page) THEN Raises("TypeError")
    ELSE IF ReplayIdList(soup.page) # <<>> THEN Returns(ReplayIdList(soup.page)[1])
    ELSE Returns(<<>>)

\* _get_most_recent_replay_id: returns replay_id[0] if the list is not
\* empty, "" otherwise; `except Exception` turns every exception of the try
\* block into the return value "".
_get_most_recent_replay_id(soup) ==
    IF soup.raised THEN Returns(<<>>)
    ELSE IF FindAllRaises(soup.page) THEN Returns(<<>>)
    ELSE IF ReplayIdList(soup.page) # <<>> THEN Returns(ReplayIdList(soup.page)[1])
    ELSE Returns(<<>>)

\* ------------------------------------------------------------ replay JSON
\* the keys ReplayInfo is built from, in the order the constructor call
\* evaluates its arguments
ReplayKeys == <<"id", "format", "log", "uploadtime">>

ReplayKeySet == {ReplayKeys[i] : i \in 1..Len(ReplayKeys)}

\* Outcome of get_response_from_url followed by .json():
\*   RequestException  the fetch raised
\*   falsy             the fetch returned no response
\*   ValueError        the body is not JSON (.json() raised)
\*   json              the body is a JSON object with the keys `keys`
Response(kind, keys) == [kind |-> kind, keys |-> keys]

Responses ==
    {Response("RequestException", {}), Response("falsy", {}), Response("ValueError", {})}
        \cup {Response("json", K) : K \in SUBSET ReplayKeySet}

\* the JSON object the server sends for replay `replay_id`, cut down to `keys`
Payload(keys, replay_id) ==
    [k \in keys |-> CASE k = "id" -> replay_id
                      [] k = "format" -> format_id
                      [] k = "log" -> <<"l", "o", "g">>
                      [] OTHER -> 1000]

\* _get_replay_json_from_id: {} for a falsy response, else the parsed body;
\* a RequestException is re-raised, any other exception passes through.
_get_replay_json_from_id(replay_id, res) ==
    CASE res.kind = "RequestException" -> Raises("RequestException")
      [] res.kind = "ValueError" -> Raises("ValueError")
      [] res.kind = "falsy" -> Returns(Payload({}, replay_id))
      [] OTHER -> Returns(Payload(res.keys, replay_id))

\* the first key, in evaluation order, that replay_json[...] does not find
MissingKeys(replay_json) ==
    SelectSeq(ReplayKeys, LAMBDA k : k \notin DOMAIN replay_json)

\* what a function returns when it ends without a return statement
None == [isNone |-> TRUE]

\* ReplayInfo(id, username, rating, format, log, uploadtime)
ReplayInfo(id, username, rating, format, log, uploadtime) ==
    [isNone |-> FALSE, id |-> id, username |-> username, rating |-> rating,
     format |-> format, log |-> log, uploadtime |-> uploadtime]

\* (mutant) the generic handler re-raises like the KeyError handler
_get_replay_info_reraise_all(user_info, replay_id, res) ==
    LET got == _get_replay_json_from_id(replay_id, res)
        replay_json == got.value
    IN  IF got.exc # "" THEN Raises(got.exc)
        ELSE IF MissingKeys(replay_json) # <<>> THEN Raises("KeyError")
        ELSE Returns(ReplayInfo(replay_json["id"], user_info.username,
                                user_info.rating, replay_json["format"],
                                replay_json["log"], replay_json["uploadtime"]))

\* (mutant) the KeyError handler only logs, like the generic handler
_get_replay_info_swallow_all(user_info, replay_id, res) ==
    LET got == _get_replay_json_from_id(replay_id, res)
        replay_json == got.value
    IN  IF got.exc # "" THEN Returns(None)
        ELSE IF MissingKeys(replay_json) # <<>> THEN Returns(None)
        ELSE Returns(ReplayInfo(replay_json["id"], user_info.username,
                                user_info.rating, replay_json["format"],
                                replay_json["log"], replay_json["uploadtime"]))

\* _get_replay_info: KeyError is logged and re-raised; any other exception
\* is logged and the function falls off its end, returning None.
_get_replay_info(user_info, replay_id, res) ==
    LET got == _get_replay_json_from_id(replay_id, res)
        replay_json == got.value
    IN  IF got.exc # "" THEN Returns(None)
        ELSE IF MissingKeys(replay_json) # <<>> THEN Raises("KeyError")
        ELSE Returns(ReplayInfo(replay_json["id"], user_info.username,
                                user_info.rating, replay_json["format"],
                                replay_json["log"], replay_json["uploadtime"]))

\* ------------------------------------------------------------ environment
\* LadderUserInfo of the user ranked i-th
LadderUserInfo(i) == [username |-> i, rating |-> 2000 - i]

\* what LadderRetriever.get_users can return: None, or a list of users
LadderNone == [isNone |-> TRUE, users |-> <<>>]

LadderList(k) == [isNone |-> FALSE, users |-> [i \in 1..k |-> LadderUserInfo(i)]]

LadderResults == {LadderNone} \cup {LadderList(k) : k \in 0..MaxLadder}

\* (mutant) `top_ladder_users is None`
LadderIsNone(ladder) == ladder.isNone

\* `not top_ladder_users`
LadderFalsy(ladder) == ladder.isNone \/ ladder.users = <<>>

\* the values of the argument num_users_to_pull
RequestedCounts == (0 - 1)..(MAX_USERS + 1)

\* search pages the workflow meets (any page of Pages could stand here)
SearchSoups ==
    { SoupRaised,
      SoupOk(<<>>),
      SoupOk(<<NoHrefLink>>),
      SoupOk(<<HrefLink(<<"/", "8", "g">>)>>),
      SoupOk(<<HrefLink(<<"/", "g", "8">>)>>),
      SoupOk(<<HrefLink(<<"/", "8", "g">>), HrefLink(<<"/", "g", "8", "8">>),
               HrefLink(<<"/", "g", "8">>)>>),
      SoupOk(<<NoHrefLink, HrefLink(<<"/", "g", "8">>)>>) }

\* every page of at most MaxLinks links with targets of at most MaxHref characters
Links == {NoHrefLink} \cup {HrefLink(h) : h \in StrUpTo(MaxHref)}

Pages == UNION {[1..k -> Links] : k \in 0..MaxLinks}

Soups == {SoupRaised} \cup {SoupOk(p) : p \in Pages}

\* ------------------------------------------------------------------ state
VARIABLES
    pc,                     \* where the call is
    requested,              \* the argument num_users_to_pull as passed
    num_users_to_pull,      \* the local after line 33
    top_ladder_users,       \* result of get_users
    idx,                    \* rank of the user the for loop is at
    soup,                   \* last result of get_soup_from_url
    most_recent_replay_id,  \* last result of _get_most_recent_replay_id
    replay_data_res,        \* last result of get_response_from_url
    replay_info_list,
    teams_found,
    exc,                    \* exception that ended the call ("" if none)
    calls                   \* collaborator calls issued so far, in order

vars == <<pc, requested, num_users_to_pull, top_ladder_users, idx, soup,
          most_recent_replay_id, replay_data_res, replay_info_list,
          teams_found, exc, calls>>

Call(name, user, out) == [call |-> name, user |-> user, out |-> out]

\* how _get_most_recent_replay_id came to its result, for the call log
SearchOut(s, got) ==
    CASE got.exc # "" -> "raised"
      [] s.raised -> "fetch_failed"
      [] FindAllRaises(s.page) -> "parse_failed"
      [] got.value = <<>> -> "no_match"
      [] OTHER -> "found"

\* how _get_replay_info ended, for the call log
JsonOut(res, got) ==
    CASE got.exc # "" -> got.exc
      [] got.value = None -> res.kind
      [] OTHER -> "ok"

Min(a, b) == IF a <= b THEN a ELSE b

\* (mutant) no clamp
ClampNone(n) == n

\* `min(num_users_to_pull, MAX_USERS)`
Clamp(n) == Min(n, MAX_USERS)

\* (mutant) the test inverted: `most_recent_replay_id`
ReplayIdPresent(replay_id) == replay_id # <<>>

\* `not most_recent_replay_id`
NoReplayId(replay_id) == replay_id = <<>>

\* (mutant) `replay_info_list.insert(0, replay_info)`
PrependReplayInfo(list, replay_info) == <<replay_info>> \o list

\* `replay_info_list.append(replay_info)`
AppendReplayInfo(list, replay_info) == Append(list, replay_info)

\* (mutant) `teams_found > num_users_to_pull`
CountExceeded(found, wanted) == found > wanted

\* `teams_found == num_users_to_pull`
CountReached(found, wanted) == found = wanted

Init ==
    /\ pc = "start"
    /\ requested \in RequestedCounts
    /\ num_users_to_pull = requested
    /\ top_ladder_users = LadderNone
    /\ idx = 0
    /\ soup = SoupRaised
    /\ most_recent_replay_id = <<>>
    /\ replay_data_res = Response("falsy", {})
    /\ replay_info_list = <<>>
    /\ teams_found = 0
    /\ exc = ""
    /\ calls = <<>>

\* lines 33-45: clamp, get_users, raise on a falsy ranking, else set up the loop
GetUsers ==
    /\ pc = "start"
    /\ num_users_to_pull' = Clamp(num_users_to_pull)
    /\ \E ladder \in LadderResults :
        /\ top_ladder_users' = ladder
        /\ IF LadderFalsy(ladder)
           THEN /\ pc' = "raised"
                /\ exc' = "LadderNotFoundException"
                /\ calls' = Append(calls, Call("get_users", 0, "falsy"))
                /\ idx' = idx
           ELSE /\ pc' = "loop"
                /\ exc' = exc
                /\ calls' = Append(calls, Call("get_users", 0, "users"))
                /\ idx' = 1
    /\ replay_info_list' = <<>>
    /\ teams_found' = 0
    /\ UNCHANGED <<requested, soup, most_recent_replay_id, replay_data_res>>

\* lines 46-53: the loop takes the next user and looks its replay up; with
\* no identifier the iteration ends here
Lookup ==
    /\ pc = "loop"
    /\ idx <= Len(top_ladder_users.users)
    /\ \E s \in SearchSoups :
        LET got == _get_most_recent_replay_id(s)
        IN  /\ soup' = s
            /\ calls' = Append(calls, Call("get_soup_from_url", idx, SearchOut(s, got)))
            /\ IF got.exc # ""
               THEN /\ pc' = "raised"
                    /\ exc' = got.exc
                    /\ UNCHANGED <<idx, most_recent_replay_id>>
               ELSE /\ most_recent_replay_id' = got.value
                    /\ exc' = exc
                    /\ IF NoReplayId(got.value)
                       THEN pc' = "loop" /\ idx' = idx + 1
                       ELSE pc' = "fetch" /\ idx' = idx
    /\ UNCHANGED <<requested, num_users_to_pull, top_ladder_users, replay_data_res,
                   replay_info_list, teams_found>>

\* lines 60-64: fetch the replay, append what _get_replay_info returned,
\* count it, break when the count is reached
GetReplayInfo ==
    /\ pc = "fetch"
    /\ \E res \in Responses :
        LET got == _get_replay_info(top_ladder_users.users[idx], most_recent_replay_id, res)
        IN  /\ replay_data_res' = res
            /\ calls' = Append(calls, Call("get_response_from_url", idx, JsonOut(res, got)))
            /\ IF got.exc # ""
               THEN /\ pc' = "raised"
                    /\ exc' = got.exc
                    /\ UNCHANGED <<idx, replay_info_list, teams_found>>
               ELSE /\ replay_info_list' = AppendReplayInfo(replay_info_list, got.value)
                    /\ teams_found' = teams_found + 1
                    /\ exc' = exc
                    /\ IF CountReached(teams_found + 1, num_users_to_pull)
                       THEN pc' = "break" /\ idx' = idx
                       ELSE pc' = "loop" /\ idx' = idx + 1
    /\ UNCHANGED <<requested, num_users_to_pull, top_ladder_users, soup,
                   most_recent_replay_id>>

\* line 66: the loop is exhausted or was left by break
Return ==
    /\ \/ pc = "break"
       \/ pc = "loop" /\ idx > Len(top_ladder_users.users)
    /\ pc' = "done"
    /\ UNCHANGED <<requested, num_users_to_pull, top_ladder_users, idx, soup,
                   most_recent_replay_id, replay_data_res, replay_info_list,
                   teams_found, exc, calls>>

Next == GetUsers \/ Lookup \/ GetReplayInfo \/ Return

Spec == Init /\ [][Next]_vars

\* -------------------------------------------- the lookup as a pure function
InitLookup ==
    /\ pc = "lookup_call"
    /\ soup \in Soups
    /\ requested = MAX_USERS
    /\ num_users_to_pull = MAX_USERS
    /\ top_ladder_users = LadderNone
    /\ idx = 0
    /\ most_recent_replay_id = <<>>
    /\ replay_data_res = Response("falsy", {})
    /\ replay_info_list = <<>>
    /\ teams_found = 0
    /\ exc = ""
    /\ calls = <<>>

\* one call of _get_most_recent_replay_id on the page in `soup`
LookupCall ==
    /\ pc = "lookup_call"
    /\ LET got == _get_most_recent_replay_id(soup)
       IN  /\ exc' = got.exc
           /\ most_recent_replay_id' = got.value
           /\ pc' = IF got.exc = "" THEN "lookup_returned" ELSE "lookup_raised"
    /\ UNCHANGED <<requested, num_users_to_pull, top_ladder_users, idx, soup,
                   replay_data_res, replay_info_list, teams_found, calls>>

NextLookup == LookupCall

SpecLookup == InitLookup /\ [][NextLookup]_vars

\* ------------------------------------------------------- reading the log
Last(s) == s[Len(s)]

IsSearch(c) == c.call = "get_soup_from_url"

IsJson(c) == c.call = "get_response_from_url"

\* a replay fetch after which extract_replays went on (no KeyError)
IsCounted(c) == IsJson(c) /\ c.out # "KeyError"

\* number of replay fetches among the first j calls that were counted
Counted(j) == Cardinality({k \in 1..j : IsCounted(calls[k])})

SearchFailed(c) == IsSearch(c) /\ c.out \in {"fetch_failed", "parse_failed"}

TransportFailed(c) == IsJson(c) /\ c.out \in {"RequestException", "ValueError"}

\* the page holds a link whose target contains the format identifier
HasMatch(page) ==
    \E i \in 1..Len(page) : page[i].hasHref /\ StrContains(format_id, page[i].href)

FirstMatch(page) ==
    CHOOSE i \in 1..Len(page) :
        /\ page[i].hasHref /\ StrContains(format_id, page[i].href)
        /\ \A k \in 1..(i - 1) :
            ~(page[k].hasHref /\ StrContains(format_id, page[k].href))

\* the entries of the list that are ReplayInfo records
Records == SelectSeq(replay_info_list, LAMBDA e : ~e.isNone)

\* the payload of the last response lacks a required key
PayloadLacksKey ==
    \/ replay_data_res.kind = "falsy"
    \/ replay_data_res.kind = "json" /\ replay_data_res.keys # ReplayKeySet

\* ----------------------------------------------------------------- claims

C2_OnlyRankingAborts ==
    /\ pc = "raised" => exc = "LadderNotFoundException" /\ Len(top_ladder_users.users) = 0
    /\ \A j \in 1..Len(calls) :
        (SearchFailed(calls[j]) \/ TransportFailed(calls[j]) \/ calls[j].out = "KeyError")
            => (j = Len(calls) => pc # "raised")

\* C2 (amended): extract_replays ends with an error only on a falsy ranking
\* (LadderNotFoundException) or on a replay payload lacking a required key
\* (KeyError).  A failed search lookup or a replay fetch that failed in
\* transport does not abort the call: the next ranked user is looked up
\* next, unless teams_found has reached the clamped count or the ranking is
\* exhausted.
C2_PerUserFailuresIsolated ==
    /\ pc = "raised" =>
        \/ /\ exc = "LadderNotFoundException"
           /\ Len(top_ladder_users.users) = 0
           /\ calls = <<Call("get_users", 0, "falsy")>>
        \/ /\ exc = "KeyError"
           /\ IsJson(Last(calls))
           /\ PayloadLacksKey
    /\ PayloadLacksKey /\ calls # <<>> /\ IsJson(Last(calls)) => pc = "raised"
    /\ \A j \in 1..Len(calls) :
        SearchFailed(calls[j]) \/ TransportFailed(calls[j]) =>
            /\ j < Len(calls) =>
                IsSearch(calls[j + 1]) /\ calls[j + 1].user = calls[j].user + 1
            /\ j = Len(calls) =>
                /\ pc \in {"loop", "break", "done"}
                /\ pc = "loop" => idx = calls[j].user + 1
                /\ pc \in {"break", "done"} =>
                    \/ teams_found = num_users_to_pull
                    \/ calls[j].user = Len(top_ladder_users.users)

C2_Witness ==
    /\ pc = "done"
    /\ \E j \in 1..(Len(calls) - 1) : SearchFailed(calls[j]) /\ IsSearch(calls[j + 1])
    /\ \E j \in 1..(Len(calls) - 1) : TransportFailed(calls[j]) /\ IsSearch(calls[j + 1])

\* C3: a replay fetch that fails in transport adds no entry to the list and
\* does not raise the found-count, so no entry of the list is a None
\* placeholder and the count is the number of successful fetches.
C3_NoPlaceholderEntries ==
    /\ \A i \in 1..Len(replay_info_list) : ~replay_info_list[i].isNone
    /\ teams_found = Cardinality({k \in 1..Len(calls) : IsJson(calls[k]) /\ calls[k].out = "ok"})

\* C4: when the replay payload lacks one of id, format, log, uploadtime
\* (the empty payload of an absent response included), _get_replay_info
\* raises KeyError to extract_replays, which ends with it; no ReplayInfo is
\* built and nothing is appended for that user.
C4_MissingKeyRaises ==
    (calls # <<>> /\ IsJson(Last(calls)) /\ PayloadLacksKey) =>
        /\ pc = "raised"
        /\ exc = "KeyError"
        /\ Len(replay_info_list) = Counted(Len(calls) - 1)
        /\ teams_found = Len(replay_info_list)
        /\ \A i \in 1..Len(replay_info_list) :
            replay_info_list[i].isNone \/ replay_info_list[i].username # Last(calls).user

C4_Witness ==
    /\ pc = "raised"
    /\ exc = "KeyError"
    /\ replay_data_res = Response("json", ReplayKeySet \ {"log"})
    /\ Len(Records) >= 1

\* C5: a falsy ranking makes extract_replays fail with
\* LadderNotFoundException; it returns no list and issues no search and no
\* replay fetch.
C5_EmptyRankingFails ==
    (pc \in {"loop", "fetch", "break", "done", "raised"}
        /\ (top_ladder_users.isNone \/ Len(top_ladder_users.users) = 0)) =>
        /\ pc = "raised"
        /\ exc = "LadderNotFoundException"
        /\ calls = <<Call("get_users", 0, "falsy")>>
        /\ replay_info_list = <<>>

C5_Witness ==
    /\ pc = "raised"
    /\ exc = "LadderNotFoundException"
    /\ top_ladder_users = LadderList(0)

\* C6 (as stated): the returned records are in ranking order, at most one
\* per ranked user, and the users left out before the last returned record
\* are exactly those whose lookup found no replay.
C6_OmittedAreNotFound ==
    pc = "done" =>
        /\ \A i, j \in 1..Len(Records) : i < j => Records[i].username < Records[j].username
        /\ Records # <<>> =>
            \A u \in 1..Last(Records).username :
                (\A i \in 1..Len(Records) : Records[i].username # u)
                    <=> (\E j \in 1..Len(calls) :
                            IsSearch(calls[j]) /\ calls[j].user = u /\ calls[j].out # "found")

\* C6 (amended): the returned ReplayInfo records are in ranking order, at
\* most one per ranked user, and the users without a record before the last
\* returned record are exactly those whose lookup found no replay or whose
\* replay fetch failed in transport (for the latter the list holds a None
\* placeholder in the user's place); the entries of the list are, in order,
\* the outcomes of the replay fetches.
C6_OrderPreservingFilter ==
    pc = "done" =>
        /\ \A i, j \in 1..Len(Records) : i < j => Records[i].username < Records[j].username
        /\ Len(replay_info_list) = Counted(Len(calls))
        /\ \A j \in 1..Len(calls) :
            IsCounted(calls[j]) =>
                LET e == replay_info_list[Counted(j)]
                IN  IF calls[j].out = "ok"
                    THEN ~e.isNone /\ e.username = calls[j].user
                              /\ e.rating = LadderUserInfo(calls[j].user).rating
                    ELSE e.isNone
        /\ Records # <<>> =>
            \A u \in 1..Last(Records).username :
                (\A i \in 1..Len(Records) : Records[i].username # u)
                    <=> (\E j \in 1..Len(calls) :
                            /\ calls[j].user = u
                            /\ \/ IsSearch(calls[j]) /\ calls[j].out # "found"
                               \/ TransportFailed(calls[j]))

\* users 1 and 4 with a fetched replay, user 2 without a matching replay,
\* user 3 with a replay whose fetch failed in transport
C6_Witness ==
    /\ pc = "done"
    /\ Len(replay_info_list) = 3
    /\ replay_info_list[2].isNone
    /\ Len(Records) = 2
    /\ Records[1].username = 1
    /\ Records[2].username = 4
    /\ \E j \in 1..Len(calls) : IsSearch(calls[j]) /\ calls[j].user = 2 /\ calls[j].out = "no_match"

\* C7: the replay fetch that brings the found-count to the clamped count is
\* the last collaborator call of the run: no search and no replay fetch is
\* issued for any user ranked after that one.
C7_EarlyTermination ==
    /\ pc \in {"loop", "fetch", "break", "done"} => teams_found = Counted(Len(calls))
    /\ \A j \in 1..Len(calls) :
        (IsCounted(calls[j]) /\ Counted(j) = num_users_to_pull) =>
            /\ j = Len(calls)
            /\ pc \in {"break", "done"}

C7_Witness ==
    /\ pc = "done"
    /\ teams_found = num_users_to_pull
    /\ Last(calls).user < Len(top_ladder_users.users)
    /\ teams_found >= 2

\* C8: on a fetched search page with at least one link whose target
\* contains the format identifier, _get_most_recent_replay_id returns the
\* target of the first such link in page order without its first
\* character, whatever other links (with or without a target) the page has.
C8_FirstMatchWins ==
    (pc = "lookup_returned" /\ ~soup.raised /\ HasMatch(soup.page)) =>
        most_recent_replay_id = Slice1(soup.page[FirstMatch(soup.page)].href)

\* C9: _get_most_recent_replay_id never raises; with no matching link, or
\* when fetch or parse fails, it returns the empty identifier, and
\* extract_replays skips the user: no replay fetch, nothing appended,
\* found-count unchanged, next ranked user next.
C9_LookupNeverRaises ==
    /\ (pc = "raised" => ~IsSearch(Last(calls)))
    /\ (calls # <<>> /\ IsSearch(Last(calls))
            /\ (soup.raised \/ FindAllRaises(soup.page) \/ ~HasMatch(soup.page)))
         => Last(calls).out \in {"fetch_failed", "parse_failed", "no_match"}
    /\ \A j \in 1..Len(calls) :
        (IsSearch(calls[j]) /\ calls[j].out # "found") =>
            /\ j < Len(calls) =>
                IsSearch(calls[j + 1]) /\ calls[j + 1].user = calls[j].user + 1
            /\ j = Len(calls) =>
                /\ most_recent_replay_id = <<>>
                /\ pc \in {"loop", "done"}
                /\ idx = calls[j].user + 1
                /\ Len(replay_info_list) = Counted(j)
                /\ teams_found = Counted(j)

C9_Witness ==
    /\ pc = "done"
    /\ \E j \in 1..(Len(calls) - 1) : calls[j].out = "fetch_failed" /\ IsSearch(calls[j + 1])
    /\ \E j \in 1..(Len(calls) - 1) : calls[j].out = "parse_failed" /\ IsSearch(calls[j + 1])
    /\ Last(calls).out = "no_match"
    /\ Len(Records) >= 1

\* C10: the ranking is requested exactly once and first; each ranked user
\* is searched at most once and fetched at most once; a user's replay fetch
\* directly follows that user's search, which returned an identifier; users
\* are contacted in ranking order.
C10_CallDiscipline ==
    /\ pc # "start" => calls # <<>>
    /\ \A j \in 1..Len(calls) : (calls[j].call = "get_users") <=> (j = 1)
    /\ \A j, k \in 1..Len(calls) :
        (j < k /\ calls[j].call = calls[k].call) => calls[j].user < calls[k].user
    /\ \A j \in 1..Len(calls) :
        IsJson(calls[j]) =>
            /\ j > 1
            /\ IsSearch(calls[j - 1])
            /\ calls[j - 1].user = calls[j].user
            /\ calls[j - 1].out = "found"
    /\ \A j, k \in 1..Len(calls) :
        (j < k /\ calls[j].user > 0) => calls[j].user <= calls[k].user
    /\ \A j \in 1..Len(calls) :
        calls[j].user > 0 => calls[j].user \in 1..Len(top_ladder_users.users)

C10_Witness ==
    /\ pc = "done"
    /\ Len(calls) >= 6
    /\ \E j \in 1..Len(calls) : IsJson(calls[j]) /\ calls[j].user = 3
    /\ \E j \in 1..Len(calls) : IsSearch(calls[j]) /\ calls[j].user = 2 /\ calls[j].out # "found"

====
